---- MODULE Spec2Model ----
(* Model of the record store of streamlit_app.py: two SQLite tables        *)
(* (students, records), the seven store functions and the connection each  *)
(* of them opens.                                                          *)
EXTENDS Integers, Sequences, FiniteSets, TLC

(* ---------------------------------------------------------------------- *)
(* Bounds                                                                  *)
(* ---------------------------------------------------------------------- *)
MaxStudentSeq == 2
MaxRecordSeq == 2
MaxIdleLeaks == 1

(* Names are TEXT values, written as their byte sequences:                 *)
(* "", "Am", "Zoe".                                                        *)
Names == { <<>>, <<65, 109>>, <<90, 111, 101>> }

(* Calendar dates <<year, month, day>> picked in the date widget.          *)
Dates == { <<2024, 2, 5>>, <<2024, 10, 3>> }

Contents == { "memo" }

(* id arguments: ids in use, ids of deleted rows and ids not assigned so far *)
StudentIdArgs == 1 .. MaxStudentSeq
RecordIdArgs == 1 .. MaxRecordSeq

VARIABLES
    tablesExist,     \* both CREATE TABLE statements have been committed
    students,        \* rows of table students: [id, name]
    records,         \* rows of table records: [id, student_id, date, content]
    studentSeq,      \* sqlite_sequence entry of students
    recordSeq,       \* sqlite_sequence entry of records
    openConns,       \* connections opened and not closed
    writeLocked,     \* one of them still holds the file's write lock
    usedStudentIds,  \* every id a student was ever given
    last             \* the most recent call and what it returned

vars == << tablesExist, students, records, studentSeq, recordSeq,
           openConns, writeLocked, usedStudentIds, last >>

db == << tablesExist, students, records, studentSeq, recordSeq, usedStudentIds >>

(* ---------------------------------------------------------------------- *)
(* Text values and their comparison (SQLite BINARY collation)              *)
(* ---------------------------------------------------------------------- *)
Min(a, b) == IF a <= b THEN a ELSE b

(* memcmp over the common prefix, then the shorter text first *)
TextLess(a, b) ==
    \/ \E i \in 1 .. Min(Len(a), Len(b)) :
          /\ a[i] < b[i]
          /\ \A j \in 1 .. (i - 1) : a[j] = b[j]
    \/ /\ Len(a) < Len(b)
       /\ \A j \in 1 .. Len(a) : a[j] = b[j]

TextLeq(a, b) == a = b \/ TextLess(a, b)

(* ---------------------------------------------------------------------- *)
(* record_date.strftime("%Y-%m-%d")                                        *)
(* ---------------------------------------------------------------------- *)
Digit(n) == 48 + (n % 10)

Strftime(d) ==
    << Digit(d[1] \div 1000), Digit(d[1] \div 100), Digit(d[1] \div 10), Digit(d[1]),
       45,
       Digit(d[2] \div 10), Digit(d[2]),
       45,
       Digit(d[3] \div 10), Digit(d[3]) >>

(* ---------------------------------------------------------------------- *)
(* Schema                                                                  *)
(* ---------------------------------------------------------------------- *)

(* No connection executes PRAGMA foreign_keys = ON, so SQLite leaves the   *)
(* FOREIGN KEY ... ON DELETE CASCADE clause of the records table unenforced *)
ForeignKeysEnabled == FALSE

CreateTableDropping(exists, rows) == {}

(* CREATE TABLE IF NOT EXISTS: an existing table keeps its rows *)
CreateTableIfNotExists(exists, rows) == IF exists THEN rows ELSE {}

MaxId(rows) == IF rows = {} THEN 0
               ELSE CHOOSE m \in { r.id : r \in rows } : \A r \in rows : r.id <= m

NextRowidReusing(seq, rows) == MaxId(rows) + 1

(* INTEGER PRIMARY KEY AUTOINCREMENT: one more than the largest rowid the  *)
(* table ever held (kept in sqlite_sequence)                               *)
NextRowid(seq, rows) == seq + 1

(* name TEXT NOT NULL UNIQUE *)
UniqueViolation(name, rows) == \E s \in rows : s.name = name

(* DELETE FROM students WHERE id = ?: the rows that remain *)
DeleteFromStudents(rows, student_id) == { s \in rows : s.id # student_id }

(* DELETE FROM records WHERE id=?: the rows that remain *)
DeleteFromRecords(rows, record_id) == { r \in rows : r.id # record_id }

(* ---------------------------------------------------------------------- *)
(* Connections                                                             *)
(* ---------------------------------------------------------------------- *)
Connect(n) == n + 1
Close(n) == n - 1

(* ---------------------------------------------------------------------- *)
(* Queries                                                                 *)
(* ---------------------------------------------------------------------- *)
RECURSIVE OrderByIdAsc(_)
OrderByIdAsc(rows) ==
    IF rows = {} THEN << >>
    ELSE LET m == CHOOSE x \in rows : \A y \in rows : x.id <= y.id
         IN  << << m.id, m.name >> >> \o OrderByIdAsc(rows \ {m})

(* SELECT id, name FROM students ORDER BY name ASC *)
RECURSIVE OrderByNameAsc(_)
OrderByNameAsc(rows) ==
    IF rows = {} THEN << >>
    ELSE LET m == CHOOSE x \in rows : \A y \in rows : TextLeq(x.name, y.name)
         IN  << << m.id, m.name >> >> \o OrderByNameAsc(rows \ {m})

(* ... FROM records WHERE student_id = ? *)
WhereStudentId(rows, sid) == { r \in rows : r.student_id = sid }

Orderings(rows) ==
    { f \in [ 1 .. Cardinality(rows) -> rows ] :
        \A i, j \in 1 .. Cardinality(rows) : i # j => f[i] # f[j] }

OrderByDateAsc(rows) ==
    { [ i \in 1 .. Cardinality(rows) |-> << f[i].id, f[i].date, f[i].content >> ] :
        f \in { g \in Orderings(rows) :
                  \A i, j \in 1 .. Cardinality(rows) :
                      i < j => TextLeq(g[i].date, g[j].date) } }

(* SELECT id, date, content ... ORDER BY date DESC: every row order that   *)
(* is descending in the date text; rows of equal date come in any order    *)
OrderByDateDesc(rows) ==
    { [ i \in 1 .. Cardinality(rows) |-> << f[i].id, f[i].date, f[i].content >> ] :
        f \in { g \in Orderings(rows) :
                  \A i, j \in 1 .. Cardinality(rows) :
                      i < j => TextLeq(g[j].date, g[i].date) } }

(* ---------------------------------------------------------------------- *)
(* Initial state: the database file does not exist yet                     *)
(* ---------------------------------------------------------------------- *)
NoCall == [ op |-> "none", id |-> 0, name |-> << >>, ok |-> TRUE,
            raised |-> FALSE, rows |-> << >> ]

Init ==
    /\ tablesExist = FALSE
    /\ students = {}
    /\ records = {}
    /\ studentSeq = 0
    /\ recordSeq = 0
    /\ openConns = 0
    /\ writeLocked = FALSE
    /\ usedStudentIds = {}
    /\ last = NoCall

(* ---------------------------------------------------------------------- *)
(* Store operations                                                        *)
(* ---------------------------------------------------------------------- *)

(* connect, work, commit, close *)
Scoped ==
    /\ openConns' = Close(Connect(openConns))
    /\ UNCHANGED writeLocked

(* c.execute of a write while another connection holds the write lock:     *)
(* sqlite3.OperationalError (database is locked) leaves the function, the  *)
(* statements after c.execute, conn.close() among them, do not run         *)
Busy(op, id, name) ==
    /\ writeLocked
    /\ openConns - 1 < MaxIdleLeaks
    /\ openConns' = Connect(openConns)
    /\ last' = [ NoCall EXCEPT !.op = op, !.id = id, !.name = name,
                               !.ok = FALSE, !.raised = TRUE ]
    /\ UNCHANGED << db, writeLocked >>

(* CREATE TABLE IF NOT EXISTS of a table that exists writes nothing and    *)
(* takes no lock; no connection is left open before the tables exist       *)
init_db ==
    /\ tablesExist' = TRUE
    /\ students' = CreateTableIfNotExists(tablesExist, students)
    /\ records' = CreateTableIfNotExists(tablesExist, records)
    /\ studentSeq' = IF tablesExist THEN studentSeq ELSE 0
    /\ recordSeq' = IF tablesExist THEN recordSeq ELSE 0
    /\ Scoped
    /\ last' = [ NoCall EXCEPT !.op = "init_db" ]
    /\ UNCHANGED usedStudentIds

add_student(name) ==
    /\ tablesExist
    /\ \/ Busy("add_student", 0, name)
       \/ (* sqlite3.IntegrityError is caught and False returned; conn.close() *)
          (* was skipped and the transaction of the INSERT stays open          *)
          /\ ~ writeLocked
          /\ UniqueViolation(name, students)
          /\ openConns' = Connect(openConns)
          /\ writeLocked' = TRUE
          /\ last' = [ NoCall EXCEPT !.op = "add_student", !.name = name,
                                     !.ok = FALSE ]
          /\ UNCHANGED db
       \/ /\ ~ writeLocked
          /\ ~ UniqueViolation(name, students)
          /\ studentSeq < MaxStudentSeq
          /\ students' = students \cup
                 { [ id |-> NextRowid(studentSeq, students), name |-> name ] }
          /\ studentSeq' = NextRowid(studentSeq, students)
          /\ usedStudentIds' = usedStudentIds \cup { NextRowid(studentSeq, students) }
          /\ Scoped
          /\ last' = [ NoCall EXCEPT !.op = "add_student", !.name = name,
                                     !.id = NextRowid(studentSeq, students),
                                     !.ok = TRUE ]
          /\ UNCHANGED << tablesExist, records, recordSeq >>

get_students ==
    /\ tablesExist
    /\ Scoped
    /\ last' = [ NoCall EXCEPT !.op = "get_students",
                               !.rows = OrderByNameAsc(students) ]
    /\ UNCHANGED db

delete_student(student_id) ==
    /\ tablesExist
    /\ \/ Busy("delete_student", student_id, << >>)
       \/ /\ ~ writeLocked
          /\ students' = DeleteFromStudents(students, student_id)
          /\ records' = IF ForeignKeysEnabled
                        THEN { r \in records : r.student_id # student_id }
                        ELSE records
          /\ Scoped
          /\ last' = [ NoCall EXCEPT !.op = "delete_student", !.id = student_id ]
          /\ UNCHANGED << tablesExist, studentSeq, recordSeq, usedStudentIds >>

add_record(student_id, date, content) ==
    /\ tablesExist
    /\ \/ Busy("add_record", student_id, << >>)
       \/ /\ ~ writeLocked
          /\ recordSeq < MaxRecordSeq
          /\ records' = records \cup
                 { [ id |-> NextRowid(recordSeq, records), student_id |-> student_id,
                     date |-> date, content |-> content ] }
          /\ recordSeq' = NextRowid(recordSeq, records)
          /\ Scoped
          /\ last' = [ NoCall EXCEPT !.op = "add_record", !.id = student_id ]
          /\ UNCHANGED << tablesExist, students, studentSeq, usedStudentIds >>

get_records(student_id) ==
    /\ tablesExist
    /\ \E result \in OrderByDateDesc(WhereStudentId(records, student_id)) :
          last' = [ NoCall EXCEPT !.op = "get_records", !.id = student_id,
                                  !.rows = result ]
    /\ Scoped
    /\ UNCHANGED db

delete_record(record_id) ==
    /\ tablesExist
    /\ \/ Busy("delete_record", record_id, << >>)
       \/ /\ ~ writeLocked
          /\ records' = DeleteFromRecords(records, record_id)
          /\ Scoped
          /\ last' = [ NoCall EXCEPT !.op = "delete_record", !.id = record_id ]
          /\ UNCHANGED << tablesExist, students, studentSeq, recordSeq,
                          usedStudentIds >>

(* A connection that was opened and never closed is closed when the        *)
(* interpreter reclaims the unreferenced object; its open transaction is   *)
(* rolled back and its lock released                                       *)
ReclaimConnection ==
    /\ openConns > 0
    /\ openConns' = Close(openConns)
    /\ \/ writeLocked /\ writeLocked' = FALSE
       \/ openConns > (IF writeLocked THEN 1 ELSE 0) /\ UNCHANGED writeLocked
    /\ last' = [ NoCall EXCEPT !.op = "reclaim" ]
    /\ UNCHANGED db

(* ---------------------------------------------------------------------- *)
(* Specifications                                                          *)
(* ---------------------------------------------------------------------- *)
AddStudentAny == \E name \in Names : add_student(name)
DeleteStudentAny == \E sid \in StudentIdArgs : delete_student(sid)
AddRecordAny ==
    \E sid \in StudentIdArgs, d \in Dates, c \in Contents :
        add_record(sid, Strftime(d), c)
GetRecordsAny == \E sid \in StudentIdArgs : get_records(sid)
DeleteRecordAny == \E rid \in RecordIdArgs : delete_record(rid)

(* the page's "save record" button: the id comes from the current listing *)
SaveRecordButton ==
    \E s \in students, d \in Dates, c \in Contents :
        add_record(s.id, Strftime(d), c)

Next ==
    \/ init_db
    \/ AddStudentAny
    \/ get_students
    \/ DeleteStudentAny
    \/ AddRecordAny
    \/ GetRecordsAny
    \/ DeleteRecordAny
    \/ ReclaimConnection

Spec == Init /\ [][Next]_vars

NextSelected ==
    \/ init_db
    \/ AddStudentAny
    \/ get_students
    \/ DeleteStudentAny
    \/ SaveRecordButton
    \/ GetRecordsAny
    \/ DeleteRecordAny
    \/ ReclaimConnection

SpecSelected == Init /\ [][NextSelected]_vars

(* ---------------------------------------------------------------------- *)
(* Properties                                                              *)
(* ---------------------------------------------------------------------- *)
Rows(seq) == { seq[i] : i \in DOMAIN seq }

(* what get_records(sid) and get_students() return in a given table state *)
RecordListings(recs, sid) == OrderByDateDesc(WhereStudentId(recs, sid))
StudentListing(studs) == OrderByNameAsc(studs)

(* C1: after delete_student(S.id) of an existing student S, get_records(S.id) *)
(* is empty and get_students() has no entry with S.id.                       *)
C1_DeleteStudentCascades ==
    [][ (/\ last'.op = "delete_student"
         /\ last'.raised = FALSE
         /\ \E s \in students : s.id = last'.id)
        => /\ RecordListings(records', last'.id) = { << >> }
           /\ \A row \in Rows(StudentListing(students')) : row[1] # last'.id ]_vars

(* C2: every stored record's student_id is the id of an existing student. *)
C2_NoOrphanRecords ==
    \A r \in records : \E s \in students : s.id = r.student_id

(* C3: add_student of a name that already exists returns False without     *)
(* raising, changes neither students nor records, and the listing has      *)
(* exactly one entry of that name; no two students ever share a name.      *)
C3_DuplicateNameRejected ==
    [][ /\ (last'.op = "add_student" /\ \E s \in students : s.name = last'.name)
           => /\ last'.ok = FALSE
              /\ last'.raised = FALSE
              /\ students' = students
              /\ records' = records
              /\ Cardinality({ i \in DOMAIN StudentListing(students') :
                                 StudentListing(students')[i][2] = last'.name }) = 1
        /\ \A s, t \in students' : s.name = t.name => s = t ]_vars

(* C4: every store operation has closed its connection when it returns:    *)
(* no connection is open between operations.                               *)
C4_NoOpenConnection == openConns = 0

(* C5: add_student of a non-empty name nobody has returns True; the listing *)
(* then has exactly one pair of that name, its id differs from every other  *)
(* listed id, and every pair listed before is still listed.                 *)
C5_AddStudentFresh ==
    [][ (/\ last'.op = "add_student"
         /\ last'.name # << >>
         /\ ~ \E s \in students : s.name = last'.name)
        => LET listing == StudentListing(students')
           IN  /\ last'.ok = TRUE
               /\ Cardinality({ i \in DOMAIN listing : listing[i][2] = last'.name }) = 1
               /\ \A i, j \in DOMAIN listing :
                     (listing[i][2] = last'.name /\ i # j) => listing[i][1] # listing[j][1]
               /\ \A s \in students : << s.id, s.name >> \in Rows(listing) ]_vars

(* the calendar date a YYYY-MM-DD text denotes *)
RECURSIVE Number(_, _, _)
Number(text, from, to) ==
    IF from > to THEN 0
    ELSE 10 * Number(text, from, to - 1) + (text[to] - 48)

ParseDate(text) ==
    LET dashes == { i \in DOMAIN text : text[i] = 45 }
        d1 == CHOOSE i \in dashes : \A j \in dashes : i <= j
        d2 == CHOOSE i \in dashes : \A j \in dashes : j <= i
    IN  << Number(text, 1, d1 - 1), Number(text, d1 + 1, d2 - 1),
           Number(text, d2 + 1, Len(text)) >>

DateBefore(a, b) ==
    \/ a[1] < b[1]
    \/ a[1] = b[1] /\ a[2] < b[2]
    \/ a[1] = b[1] /\ a[2] = b[2] /\ a[3] < b[3]

C7_DeleteRecordFrame ==
    [][ last'.op = "delete_record"
        => /\ last'.raised = FALSE
           /\ students' = students
           /\ records' = { r \in records : r.id # last'.id }
           /\ (~ \E r \in records : r.id = last'.id) => records' = records ]_vars

(* C8: get_students() returns every student exactly once, names ascending. *)
C8_StudentsByNameAsc ==
    last.op = "get_students"
    => /\ Rows(last.rows) = { << s.id, s.name >> : s \in students }
       /\ Len(last.rows) = Cardinality(students)
       /\ \A i, j \in DOMAIN last.rows :
             i < j => TextLess(last.rows[i][2], last.rows[j][2])

C8_Witness ==
    /\ last.op = "get_students"
    /\ Len(last.rows) = 2
    /\ last.rows[1][1] > last.rows[2][1]

(* C9: init_db() leaves the students and the records exactly as they were. *)
C9_InitDbKeepsData ==
    [][ last'.op = "init_db" => students' = students /\ records' = records ]_vars

C9_Witness ==
    /\ last.op = "init_db"
    /\ students # {}
    /\ records # {}

(* C10: when records are only added for students existing at that time, a   *)
(* successful add_student assigns an id no earlier student ever had, and    *)
(* get_records of that id is empty.                                         *)
C10_NewStudentHasNoRecords ==
    [][ (last'.op = "add_student" /\ last'.ok = TRUE)
        => /\ last'.id \notin usedStudentIds
           /\ RecordListings(records', last'.id) = { << >> } ]_vars

C10_Witness ==
    /\ last.op = "add_student"
    /\ last.ok = TRUE
    /\ \E r \in records : r.student_id \notin { s.id : s \in students }
    /\ \A r \in records : r.student_id # last.id
====
